---- MODULE Spec2Model ----
(***************************************************************************)
(* Model of planar/polygon.go (package planar of planetfederal/orb).       *)
(*                                                                         *)
(* A Point is the Go array [2]float64; here <<x, y>> with Go's p[0] = x    *)
(* written p[1] and Go's p[1] = y written p[2].  A LineString is a         *)
(* sequence of Points, a Polygon a sequence of LineStrings (ring 0 of the  *)
(* Go code is ring 1 here).                                                *)
(*                                                                         *)
(* Ring vertices have integer coordinates.  Every float64 operation the    *)
(* code performs on such small integers is exact except division, and a    *)
(* correctly rounded division maps equal rationals to equal floats and     *)
(* keeps their order, so results are modelled as exact rationals.          *)
(* The x coordinate of the query point additionally carries the number of  *)
(* math.Nextafter steps applied to it: <<v, u>> is the u-th float64 above  *)
(* the integer v, which is closer to v than any other coordinate.          *)
(***************************************************************************)
EXTENDS Integers, Sequences, FiniteSets, TLC

VARIABLES p, arg, point, op, ret

vars == <<p, arg, point, op, ret>>

----------------------------------------------------------------------------
(* Bounds of the model *)

\* ring vertices lie on the even coordinates of 0..GridMax, hole vertices and
\* query points on every coordinate (so that edge midpoints are query points)
GridMax == 4

\* a simple ring has 3..MaxVerts distinct vertices
MaxVerts == 4

----------------------------------------------------------------------------
(* float64 arithmetic: exact rationals <<n, d>> in lowest terms with d > 0; *)
(* <<0, 0>> stands for a non-finite result (NaN or +-Inf) of a division by  *)
(* zero, which every later operation propagates.                           *)

AbsInt(a) == IF a < 0 THEN -a ELSE a

RECURSIVE Gcd(_, _)
Gcd(a, b) == IF b = 0 THEN a ELSE Gcd(b, a % b)

NonFinite == <<0, 0>>

IsFinite(r) == r[2] # 0

Rat(n, d) ==
    IF d = 0 THEN NonFinite
    ELSE LET g == Gcd(AbsInt(n), AbsInt(d))
             sg == IF d < 0 THEN -1 ELSE 1
         IN <<sg * (n \div g), sg * (d \div g)>>

Num(n) == <<n, 1>>

RAdd(a, b) ==
    IF IsFinite(a) /\ IsFinite(b) THEN Rat(a[1] * b[2] + b[1] * a[2], a[2] * b[2])
    ELSE NonFinite

RSub(a, b) ==
    IF IsFinite(a) /\ IsFinite(b) THEN Rat(a[1] * b[2] - b[1] * a[2], a[2] * b[2])
    ELSE NonFinite

RMul(a, b) ==
    IF IsFinite(a) /\ IsFinite(b) THEN Rat(a[1] * b[1], a[2] * b[2])
    ELSE NonFinite

RDiv(a, b) ==
    IF IsFinite(a) /\ IsFinite(b) THEN Rat(a[1] * b[2], a[2] * b[1])
    ELSE NonFinite

RAbs(a) == <<AbsInt(a[1]), a[2]>>

RIsZero(a) == IsFinite(a) /\ a[1] = 0

RGeqZero(a) == IsFinite(a) /\ a[1] >= 0

\* a Go function returns a value or panics (index out of range)
Ok(v) == [panic |-> FALSE, v |-> v]

Panic == [panic |-> TRUE, v |-> "index out of range"]

----------------------------------------------------------------------------
(* The query point's x coordinate, <<v, u>>: u Nextafter steps above v *)

\* a nudge that does not move the point
NextafterSame(x) == x

\* math.Nextafter(p[0], math.Inf(1))
Nextafter(x) == <<x[1], x[2] + 1>>

\* comparisons of the query x with a vertex coordinate c
XEq(x, c) == x[1] = c /\ x[2] = 0

XLt(x, c) == x[1] < c \/ (x[1] = c /\ x[2] < 0)

XGt(x, c) == x[1] > c \/ (x[1] = c /\ x[2] > 0)

\* the float nearest to an exact value, as a query point
QueryPoint(x, y) == <<(<<x, 0>>), y>>

\* the integer part of a query point
Coords(pt) == <<pt[1][1], pt[2]>>

----------------------------------------------------------------------------
(* LineString.Bound and Rect.Contains (planar/line_string.go, rect.go) *)

MinOf(S) == CHOOSE a \in S : \A b \in S : a <= b

MaxOf(S) == CHOOSE a \in S : \A b \in S : a >= b

\* the bounding rectangle of the points; the zero Rect for no points
Bound(ls) ==
    IF Len(ls) = 0 THEN [min |-> <<0, 0>>, max |-> <<0, 0>>]
    ELSE LET xs == {ls[i][1] : i \in 1..Len(ls)}
             ys == {ls[i][2] : i \in 1..Len(ls)}
         IN [min |-> <<MinOf(xs), MinOf(ys)>>, max |-> <<MaxOf(xs), MaxOf(ys)>>]

\* boundary inclusive
RectContains(r, pt) ==
    /\ ~XLt(pt[1], r.min[1])
    /\ ~XGt(pt[1], r.max[1])
    /\ pt[2] >= r.min[2]
    /\ pt[2] <= r.max[2]

----------------------------------------------------------------------------
(* rayIntersect *)

\* a comparison that takes equal slopes for rs < ds
SlopeCmpNeverEqual(pt, s, e) ==
    IF (pt[2] - s[2]) * (e[1] - s[1]) > (e[2] - s[2]) * (pt[1][1] - s[1]) THEN 1 ELSE -1

\* rs = (p[1] - s[1]) / (p[0] - s[0]) against ds = (e[1] - s[1]) / (e[0] - s[0]):
\* -1, 0, 1 as rs < ds, rs == ds, rs > ds.  Both denominators are positive
\* where the code divides (s[0] < p[0] <= e[0]); they are cross-multiplied,
\* the Nextafter steps of p[0] weighing less than any integer difference.
SlopeCmp(pt, s, e) ==
    LET l == (pt[2] - s[2]) * (e[1] - s[1])
        rv == (e[2] - s[2]) * (pt[1][1] - s[1])
        ru == (e[2] - s[2]) * pt[1][2]
    IN IF l < rv THEN -1
       ELSE IF l > rv THEN 1
       ELSE IF 0 < ru THEN -1
       ELSE IF 0 > ru THEN 1
       ELSE 0

\* the result of rayIntersect and its parameters p, s, e as it returns
RayResult(intersects, on, pt, s, e) ==
    [intersects |-> intersects, on |-> on, p |-> pt, s |-> s, e |-> e]

\* lines 243-268: the crossing test once p[0] is settled
RayCross(pt, s, e) ==
    IF XLt(pt[1], s[1]) \/ XGt(pt[1], e[1]) THEN RayResult(FALSE, FALSE, pt, s, e)
    ELSE IF s[2] > e[2] /\ pt[2] > s[2] THEN RayResult(FALSE, FALSE, pt, s, e)
    ELSE IF s[2] > e[2] /\ pt[2] < e[2] THEN RayResult(TRUE, FALSE, pt, s, e)
    ELSE IF ~(s[2] > e[2]) /\ pt[2] > e[2] THEN RayResult(FALSE, FALSE, pt, s, e)
    ELSE IF ~(s[2] > e[2]) /\ pt[2] < s[2] THEN RayResult(TRUE, FALSE, pt, s, e)
    ELSE IF SlopeCmp(pt, s, e) = 0 THEN RayResult(FALSE, TRUE, pt, s, e)
    ELSE RayResult(SlopeCmp(pt, s, e) <= 0, FALSE, pt, s, e)

RayIntersect(pt, s0, e0) ==
    LET swap == s0[1] > e0[1]
        s == IF swap THEN e0 ELSE s0
        e == IF swap THEN s0 ELSE e0
        nudged == <<Nextafter(pt[1]), pt[2]>>
    IN IF XEq(pt[1], s[1]) THEN
           IF pt[2] = s[2] THEN RayResult(FALSE, TRUE, pt, s, e)
           ELSE IF s[1] = e[1] /\ s[2] > e[2] /\ s[2] >= pt[2] /\ pt[2] >= e[2]
                THEN RayResult(FALSE, TRUE, pt, s, e)
           ELSE IF s[1] = e[1] /\ e[2] > s[2] /\ e[2] >= pt[2] /\ pt[2] >= s[2]
                THEN RayResult(FALSE, TRUE, pt, s, e)
           ELSE RayCross(nudged, s, e)
       ELSE IF XEq(pt[1], e[1]) THEN
           IF pt[2] = e[2] THEN RayResult(FALSE, TRUE, pt, s, e)
           ELSE RayCross(nudged, s, e)
       ELSE RayCross(pt, s, e)

\* Point is an array: rayIntersect works on its own copy of the argument, and
\* the caller's variable keeps its value whatever the callee assigned
ArgAliased(passed, local) == local

ArgAfterCall(passed, local) == passed

----------------------------------------------------------------------------
(* lineStringContains *)

ContainsResult(c, pt) == [panic |-> FALSE, c |-> c, point |-> pt]

ContainsPanic(pt) == [panic |-> TRUE, c |-> FALSE, point |-> pt]

RECURSIVE ContainsLoop(_, _, _, _)

\* lines 198-204: what the loop does with the result r of rayIntersect for
\* Go's index i
ContainsStep(ls, pt, i, c, r) ==
    IF r.on THEN ContainsResult(TRUE, ArgAfterCall(pt, r.p))
    ELSE ContainsLoop(ls, ArgAfterCall(pt, r.p), i + 1, IF r.intersects THEN ~c ELSE c)

\* the loop of lines 196-207 from index i (Go's i) on, c the parity so far
ContainsLoop(ls, pt, i, c) ==
    IF ~(i < Len(ls) - 1) THEN ContainsResult(c, pt)
    ELSE ContainsStep(ls, pt, i, c, RayIntersect(pt, ls[i + 1], ls[i + 2]))

\* lines 192-207: after the closing edge's result r
ContainsFirst(ls, pt, r) ==
    IF r.on THEN ContainsResult(TRUE, ArgAfterCall(pt, r.p))
    ELSE ContainsLoop(ls, ArgAfterCall(pt, r.p), 0, r.intersects)

\* [panic, c, point]: the result and the caller's point as the call returns
LineStringContains(ls, pt) ==
    IF ~RectContains(Bound(ls), pt) THEN ContainsResult(FALSE, pt)
    ELSE IF Len(ls) = 0 THEN ContainsPanic(pt)
    ELSE ContainsFirst(ls, pt, RayIntersect(pt, ls[1], ls[Len(ls)]))

----------------------------------------------------------------------------
(* Polygon.Contains *)

\* a loop that never looks at a hole
HolesLoopSkipped(poly, pt, i) == ContainsResult(TRUE, pt)

RECURSIVE HolesLoop(_, _, _)

\* lines 108-110: what the loop does with the result h of lineStringContains
\* for the hole of Go's index i
HolesStep(poly, pt, i, h) ==
    IF h.panic THEN ContainsPanic(ArgAfterCall(pt, h.point))
    ELSE IF h.c THEN ContainsResult(FALSE, ArgAfterCall(pt, h.point))
    ELSE HolesLoop(poly, ArgAfterCall(pt, h.point), i + 1)

\* the loop of lines 107-113 over the holes from Go's index i on
HolesLoop(poly, pt, i) ==
    IF ~(i < Len(poly)) THEN ContainsResult(TRUE, pt)
    ELSE HolesStep(poly, pt, i, LineStringContains(poly[i + 1], pt))

\* lines 103-113: after the outer ring's result c
ContainsOuter(poly, pt, c) ==
    IF c.panic THEN ContainsPanic(ArgAfterCall(pt, c.point))
    ELSE IF ~c.c THEN ContainsResult(FALSE, ArgAfterCall(pt, c.point))
    ELSE HolesLoop(poly, ArgAfterCall(pt, c.point), 1)

PolygonContains(poly, pt) ==
    IF Len(poly) = 0 THEN ContainsPanic(pt)
    ELSE ContainsOuter(poly, pt, LineStringContains(poly[1], pt))

----------------------------------------------------------------------------
(* lineStringArea and Polygon.Area *)

\* the loop of lines 172-174 from Go's index i on: the sum of
\* ls[i][0] * (ls[i+1][1] - ls[i-1][1])
RECURSIVE AreaLoop(_, _)
AreaLoop(ls, i) ==
    IF ~(i < Len(ls) - 1) THEN 0
    ELSE ls[i + 1][1] * (ls[i + 2][2] - ls[i][2]) + AreaLoop(ls, i + 1)

\* the signed half, its absolute value not taken
HalfSigned(area) == Rat(area, 2)

\* math.Abs(area / 2.0)
HalfAbs(area) == RAbs(Rat(area, 2))

LineStringArea(ls) ==
    IF Len(ls) = 0 THEN Ok(Num(0))
    ELSE LET last == Len(ls) - 1
         IN IF last - 1 < 0 THEN Panic          \* ls[last-1] with last = 0
            ELSE LET area == AreaLoop(ls, 1)
                             + ls[last + 1][1] * (ls[1][2] - ls[last][2])
                             + ls[1][1] * (ls[2][2] - ls[last + 1][2])
                 IN Ok(HalfAbs(area))

\* the loop of lines 121-124 from Go's index i on, area the value so far
RECURSIVE PolygonAreaLoop(_, _, _)
PolygonAreaLoop(poly, i, area) ==
    IF ~(i < Len(poly)) THEN Ok(area)
    ELSE LET h == LineStringArea(poly[i + 1])
         IN IF h.panic THEN Panic
            ELSE PolygonAreaLoop(poly, i + 1, RSub(area, h.v))

PolygonArea(poly) ==
    IF Len(poly) = 0 THEN Panic
    ELSE LET a == LineStringArea(poly[1])
         IN IF a.panic THEN Panic ELSE PolygonAreaLoop(poly, 1, a.v)

----------------------------------------------------------------------------
(* ringCentroid, Polygon.CentroidArea and Polygon.Centroid *)

\* the term a of lines 78-79 for Go's index i
CrossTerm(ring, i) ==
    (ring[i + 1][1] - ring[1][1]) * (ring[i + 2][2] - ring[1][2])
    - (ring[i + 2][1] - ring[1][1]) * (ring[i + 1][2] - ring[1][2])

\* the loop of lines 77-84 from Go's index i on: <<area, centroid[0], centroid[1]>>
RECURSIVE CentroidLoop(_, _)
CentroidLoop(ring, i) ==
    IF ~(i < Len(ring) - 1) THEN <<0, 0, 0>>
    ELSE LET a == CrossTerm(ring, i)
             rest == CentroidLoop(ring, i + 1)
         IN <<a + rest[1],
              (ring[i + 1][1] + ring[i + 2][1] - 2 * ring[1][1]) * a + rest[2],
              (ring[i + 1][2] + ring[i + 2][2] - 2 * ring[1][2]) * a + rest[3]>>

\* [centroid, area], the area signed by the ring's winding
RingCentroid(ls) ==
    IF Len(ls) = 0 THEN Panic
    ELSE LET sums == CentroidLoop(ls, 1)
             area == Rat(sums[1], 2)
             six == RMul(Num(6), area)
         IN Ok([centroid |-> <<RAdd(RDiv(Num(sums[2]), six), Num(ls[1][1])),
                               RAdd(RDiv(Num(sums[3]), six), Num(ls[1][2]))>>,
                area |-> area])

\* the loop of lines 53-60 from Go's index i on, acc = [holeArea, holeCentroid]
RECURSIVE HoleCentroidLoop(_, _, _)
HoleCentroidLoop(poly, i, acc) ==
    IF ~(i < Len(poly)) THEN Ok(acc)
    ELSE LET h == RingCentroid(poly[i + 1])
         IN IF h.panic THEN Panic
            ELSE HoleCentroidLoop(poly, i + 1,
                     [holeArea |-> RAdd(acc.holeArea, h.v.area),
                      holeCentroid |->
                          <<RAdd(acc.holeCentroid[1], RMul(h.v.centroid[1], h.v.area)),
                            RAdd(acc.holeCentroid[2], RMul(h.v.centroid[2], h.v.area))>>])

\* lines 62-63 for one axis
CombineAxis(area, c, holeArea, hc) ==
    RDiv(RSub(RMul(area, c), RMul(holeArea, hc)), RSub(area, holeArea))

PolygonCentroidArea(poly) ==
    IF Len(poly) = 0 THEN Panic
    ELSE LET o == RingCentroid(poly[1])
             hs == HoleCentroidLoop(poly, 1,
                       [holeArea |-> Num(0), holeCentroid |-> <<Num(0), Num(0)>>])
         IN IF o.panic \/ hs.panic THEN Panic
            ELSE Ok([centroid |->
                         <<CombineAxis(o.v.area, o.v.centroid[1],
                                       hs.v.holeArea, hs.v.holeCentroid[1]),
                           CombineAxis(o.v.area, o.v.centroid[2],
                                       hs.v.holeArea, hs.v.holeCentroid[2])>>,
                     area |-> RSub(o.v.area, hs.v.holeArea)])

PolygonCentroid(poly) ==
    LET ca == PolygonCentroidArea(poly)
    IN IF ca.panic THEN Panic ELSE Ok(ca.v.centroid)

----------------------------------------------------------------------------
(* LineString.DistanceFrom (planar/line_string.go) and Polygon.DistanceFrom. *)
(* A distance is carried as its square, an exact rational: the code's        *)
(* math.Sqrt of it is zero, positive or non-finite exactly as the square is. *)

RLeq(a, b) == a[1] * b[2] <= b[1] * a[2]

SquaredLen(a, b) == (b[1] - a[1]) * (b[1] - a[1]) + (b[2] - a[2]) * (b[2] - a[2])

\* squared distance from the point c to the segment a-b
SegmentSquaredDistance(a, b, c) ==
    LET d2 == SquaredLen(a, b)
        t == (c[1] - a[1]) * (b[1] - a[1]) + (c[2] - a[2]) * (b[2] - a[2])
        cr == (b[1] - a[1]) * (c[2] - a[2]) - (b[2] - a[2]) * (c[1] - a[1])
    IN IF d2 = 0 \/ t <= 0 THEN Num(SquaredLen(a, c))
       ELSE IF t >= d2 THEN Num(SquaredLen(b, c))
       ELSE Rat(cr * cr, d2)

\* the minimum over the segments from index i on; +Inf when there is none
RECURSIVE LineStringSquaredDistance(_, _, _)
LineStringSquaredDistance(ls, c, i) ==
    IF ~(i < Len(ls)) THEN NonFinite
    ELSE LET d == SegmentSquaredDistance(ls[i], ls[i + 1], c)
             rest == LineStringSquaredDistance(ls, c, i + 1)
         IN IF ~IsFinite(rest) \/ RLeq(d, rest) THEN d ELSE rest

LineStringDistanceFrom(ls, pt) == LineStringSquaredDistance(ls, Coords(pt), 1)

\* [panic, v, point]: v the squared distance, point the caller's point as the
\* call returns
DistanceResult(v, pt) == [panic |-> FALSE, v |-> v, point |-> pt]

DistancePanic(pt) == [panic |-> TRUE, v |-> Panic.v, point |-> pt]

RECURSIVE DistanceHolesLoop(_, _, _)

\* lines 30-32: what the loop does with the result h of hole.Contains for the
\* hole of Go's index i
DistanceHolesStep(poly, pt, i, h) ==
    IF h.panic THEN DistancePanic(ArgAfterCall(pt, h.point))
    ELSE IF h.c
    THEN DistanceResult(LineStringDistanceFrom(poly[i + 1], ArgAfterCall(pt, h.point)),
                        ArgAfterCall(pt, h.point))
    ELSE DistanceHolesLoop(poly, ArgAfterCall(pt, h.point), i + 1)

\* the loop of lines 28-36 over the holes from Go's index i on
DistanceHolesLoop(poly, pt, i) ==
    IF ~(i < Len(poly)) THEN DistanceResult(Num(0), pt)
    ELSE DistanceHolesStep(poly, pt, i, PolygonContains(<<poly[i + 1]>>, pt))

\* lines 23-36: after the result c of ring.Contains
DistanceOuter(poly, pt, c) ==
    IF c.panic THEN DistancePanic(ArgAfterCall(pt, c.point))
    ELSE IF ~c.c
    THEN DistanceResult(LineStringDistanceFrom(poly[1], ArgAfterCall(pt, c.point)),
                        ArgAfterCall(pt, c.point))
    ELSE DistanceHolesLoop(poly, ArgAfterCall(pt, c.point), 1)

PolygonDistanceFrom(poly, pt) ==
    IF Len(poly) = 0 THEN DistancePanic(pt)
    ELSE DistanceOuter(poly, pt, PolygonContains(<<poly[1]>>, pt))

----------------------------------------------------------------------------
(* Polygon.Bound and Polygon.WKT *)

PolygonBound(poly) == IF Len(poly) = 0 THEN Panic ELSE Ok(Bound(poly[1]))

\* wktPoints (planar/wkt.go): "(x y,x y,...)", the points from index i on
RECURSIVE WktPointsFrom(_, _)
WktPointsFrom(ls, i) ==
    IF i > Len(ls) THEN ""
    ELSE (IF i > 1 THEN "," ELSE "")
         \o ToString(ls[i][1]) \o " " \o ToString(ls[i][2])
         \o WktPointsFrom(ls, i + 1)

WktPoints(ls) == "(" \o WktPointsFrom(ls, 1) \o ")"

\* the loop of lines 145-148 from Go's index i on
RECURSIVE WktRingsFrom(_, _)
WktRingsFrom(poly, i) ==
    IF ~(i < Len(poly)) THEN ""
    ELSE "," \o WktPoints(poly[i + 1]) \o WktRingsFrom(poly, i + 1)

PolygonWKT(poly) ==
    IF Len(poly) = 0 THEN Ok("EMPTY")
    ELSE Ok("POLYGON(" \o WktPoints(poly[1]) \o WktRingsFrom(poly, 1) \o ")")

----------------------------------------------------------------------------
(* Plane geometry the results are compared with: exact integer predicates, *)
(* independent of the ray casting above.                                   *)

\* twice the signed area of the triangle a, b, c: > 0 iff c is left of a -> b
Cross(a, b, c) == (b[1] - a[1]) * (c[2] - a[2]) - (b[2] - a[2]) * (c[1] - a[1])

Between(x, a, b) == (a <= x /\ x <= b) \/ (b <= x /\ x <= a)

OnSegment(c, a, b) ==
    Cross(a, b, c) = 0 /\ Between(c[1], a[1], b[1]) /\ Between(c[2], a[2], b[2])

OnBoundary(ring, c) == \E i \in 1..(Len(ring) - 1) : OnSegment(c, ring[i], ring[i + 1])

\* the winding number of the ring around c, edges from index i on
RECURSIVE Winding(_, _, _)
Winding(ring, c, i) ==
    IF i >= Len(ring) THEN 0
    ELSE LET a == ring[i]
             b == ring[i + 1]
             w == IF a[2] <= c[2] /\ b[2] > c[2] /\ Cross(a, b, c) > 0 THEN 1
                  ELSE IF a[2] > c[2] /\ b[2] <= c[2] /\ Cross(a, b, c) < 0 THEN -1
                  ELSE 0
         IN w + Winding(ring, c, i + 1)

StrictlyInside(ring, c) == ~OnBoundary(ring, c) /\ Winding(ring, c, 1) # 0

\* inside the ring or on its boundary
InRing(ring, c) == OnBoundary(ring, c) \/ Winding(ring, c, 1) # 0

SegmentsIntersect(a, b, c, d) ==
    \/ /\ Cross(c, d, a) * Cross(c, d, b) < 0
       /\ Cross(a, b, c) * Cross(a, b, d) < 0
    \/ OnSegment(a, c, d) \/ OnSegment(b, c, d)
    \/ OnSegment(c, a, b) \/ OnSegment(d, a, b)

\* the vertices vs, in order, are the corners of a simple closed curve
IsSimple(vs) ==
    LET k == Len(vs)
        nxt(i) == (i % k) + 1
    IN /\ k >= 3
       /\ \A i, j \in 1..k : i < j => vs[i] # vs[j]
       /\ \A i, j \in 1..k :
              i < j =>
                  IF nxt(i) = j
                  THEN ~OnSegment(vs[nxt(j)], vs[i], vs[j]) /\ ~OnSegment(vs[i], vs[j], vs[nxt(j)])
                  ELSE IF nxt(j) = i
                  THEN ~OnSegment(vs[nxt(i)], vs[j], vs[i]) /\ ~OnSegment(vs[j], vs[i], vs[nxt(i)])
                  ELSE ~SegmentsIntersect(vs[i], vs[nxt(i)], vs[j], vs[nxt(j)])

\* a closed ring (first point = last point) turning one way only
IsConvex(ring) ==
    LET k == Len(ring) - 1
        turn(i) == Cross(ring[i], ring[i + 1], ring[((i + 1) % k) + 1])
    IN (\A i \in 1..k : turn(i) >= 0) \/ (\A i \in 1..k : turn(i) <= 0)

\* every point of the ring lies on one line (or there are fewer than 3)
IsCollinear(ring) ==
    \A i, j, k \in 1..Len(ring) : Cross(ring[i], ring[j], ring[k]) = 0

----------------------------------------------------------------------------
(* The inputs *)

Closed(vs) == Append(vs, vs[1])

VertexCoords == {c \in 0..GridMax : c % 2 = 0}

Vertices == VertexCoords \X VertexCoords

Points == {QueryPoint(x, y) : x, y \in (-1)..(GridMax + 1)}

\* the simple closed rings with 3..n corners among V, in every rotation and
\* both windings
SimpleRings(V, n) ==
    UNION {{Closed(vs) : vs \in {w \in [1..k -> V] : IsSimple(w)}} : k \in 3..n}

Rings == SimpleRings(Vertices, MaxVerts)

\* the rings around the whole grid: its four corners, in order
OuterRings ==
    {r \in Rings : /\ Len(r) = 5
                   /\ \A i \in 1..Len(r) : /\ r[i][1] \in {0, MaxOf(VertexCoords)}
                                           /\ r[i][2] \in {0, MaxOf(VertexCoords)}}

\* the triangles strictly inside the rings around the whole grid
HoleVertices == LET inner == 1..(MaxOf(VertexCoords) - 1) IN inner \X inner

HoleRings == SimpleRings(HoleVertices, 3)

\* empty, one point, or closed and collapsed to a point or a line
DegenerateRings ==
    {<<>>} \cup {<<v>> : v \in Vertices}
    \cup UNION {{Closed(vs) : vs \in {w \in [1..k -> Vertices] : IsCollinear(w)}} : k \in 1..3}

\* the rings share no point and neither lies inside the other
RingsDisjoint(a, b) ==
    /\ \A i \in 1..(Len(a) - 1), j \in 1..(Len(b) - 1) :
           ~SegmentsIntersect(a[i], a[i + 1], b[j], b[j + 1])
    /\ ~InRing(a, b[1])
    /\ ~InRing(b, a[1])

\* two disjoint holes, one starting in the low corner of the hole vertices and
\* one in the high corner, in an outer ring starting at the origin
TwoHolePolygons ==
    LET hi == MaxOf(VertexCoords) - 1
    IN {<<o, h1, h2>> : o \in {r \in OuterRings : r[1] = <<0, 0>>},
                        h1 \in {h \in HoleRings : h[1] = <<1, 1>>},
                        h2 \in {h \in HoleRings : h[1] = <<hi, hi>>}}

\* no ring, one ring, two rings of which one lies inside the other, given in
\* the right order (outer ring first) or the wrong one, or two holes
Polygons ==
    {<<>>}
    \cup {<<r>> : r \in Rings \cup DegenerateRings}
    \cup {<<o, h>> : o \in OuterRings, h \in HoleRings}
    \cup {<<h, o>> : o \in OuterRings, h \in HoleRings}
    \cup {q \in TwoHolePolygons : RingsDisjoint(q[2], q[3])}

----------------------------------------------------------------------------
(* The state: a caller holding a polygon p; the operation it called last,   *)
(* the query point arg it passed, its own copy point of that argument as    *)
(* the call returns, and what the call returned.                            *)

NoResult == [panic |-> FALSE, v |-> "none"]

NoPoint == QueryPoint(0, 0)

Init ==
    /\ p \in Polygons
    /\ arg = NoPoint
    /\ point = NoPoint
    /\ op = "none"
    /\ ret = NoResult

\* the caller's state as a call with the query point pt returns r
Returned(pt, r, v) ==
    /\ arg' = pt
    /\ ret' = [panic |-> r.panic, v |-> v]
    /\ point' = ArgAfterCall(pt, r.point)

ContainsReturned(pt, r) == Returned(pt, r, r.c)

Contains ==
    /\ op = "none"
    /\ \E pt \in Points : ContainsReturned(pt, PolygonContains(p, pt))
    /\ op' = "Contains"
    /\ UNCHANGED p

DistanceReturned(pt, r) == Returned(pt, r, r.v)

DistanceFrom ==
    /\ op = "none"
    /\ \E pt \in Points : DistanceReturned(pt, PolygonDistanceFrom(p, pt))
    /\ op' = "DistanceFrom"
    /\ UNCHANGED p

Area ==
    /\ op = "none"
    /\ ret' = PolygonArea(p)
    /\ op' = "Area"
    /\ UNCHANGED <<p, arg, point>>

CentroidArea ==
    /\ op = "none"
    /\ ret' = PolygonCentroidArea(p)
    /\ op' = "CentroidArea"
    /\ UNCHANGED <<p, arg, point>>

Centroid ==
    /\ op = "none"
    /\ ret' = PolygonCentroid(p)
    /\ op' = "Centroid"
    /\ UNCHANGED <<p, arg, point>>

BoundOf ==
    /\ op = "none"
    /\ ret' = PolygonBound(p)
    /\ op' = "Bound"
    /\ UNCHANGED <<p, arg, point>>

WKT ==
    /\ op = "none"
    /\ ret' = PolygonWKT(p)
    /\ op' = "WKT"
    /\ UNCHANGED <<p, arg, point>>

\* the caller drops the result and the query point and is free to call again
Return ==
    /\ op # "none"
    /\ op' = "none"
    /\ ret' = NoResult
    /\ arg' = NoPoint
    /\ point' = NoPoint
    /\ UNCHANGED p

Next ==
    \/ Contains
    \/ DistanceFrom
    \/ Area
    \/ CentroidArea
    \/ Centroid
    \/ BoundOf
    \/ WKT
    \/ Return

Spec == Init /\ [][Next]_vars

----------------------------------------------------------------------------
(* Properties *)

\* closed, with at least 3 corners, and not touching or crossing itself
IsSimpleRing(ring) ==
    /\ Len(ring) >= 4
    /\ ring[1] = ring[Len(ring)]
    /\ IsSimple(SubSeq(ring, 1, Len(ring) - 1))

AllSimpleRings == \A i \in 1..Len(p) : IsSimpleRing(p[i])

\* the query point passed to the last call, as integers
Q == Coords(arg)

SharesX(ring, c) == \E i \in 1..Len(ring) : ring[i][1] = c[1]

IsVertex(ring, c) == \E i \in 1..Len(ring) : ring[i] = c

\* c is the midpoint of an edge of the ring
IsEdgeMidpoint(ring, c) ==
    \E i \in 1..(Len(ring) - 1) :
        /\ 2 * c[1] = ring[i][1] + ring[i + 1][1]
        /\ 2 * c[2] = ring[i][2] + ring[i + 1][2]

\* c lies on a vertical edge of the ring
OnVerticalEdge(ring, c) ==
    \E i \in 1..(Len(ring) - 1) :
        /\ ring[i][1] = ring[i + 1][1]
        /\ c[1] = ring[i][1]
        /\ Between(c[2], ring[i][2], ring[i + 1][2])

C6_RingContainsExact ==
    (op = "Contains" /\ Len(p) = 1 /\ IsSimpleRing(p[1])) =>
        /\ ~ret.panic
        /\ ret.v <=> (StrictlyInside(p[1], Q) \/ OnBoundary(p[1], Q))

\* a point strictly inside a ring that is not convex, below a vertex of it
C6_Witness ==
    /\ op = "Contains" /\ Len(p) = 1 /\ IsSimpleRing(p[1])
    /\ ~IsConvex(p[1])
    /\ SharesX(p[1], Q)
    /\ StrictlyInside(p[1], Q)
    /\ ret.v = TRUE

\* C7: every vertex and every edge midpoint of a convex polygon without holes
\* is contained, and so is every point on a vertical edge
C7_ConvexBoundaryContained ==
    (op = "Contains" /\ Len(p) = 1 /\ IsSimpleRing(p[1])) =>
        /\ (IsConvex(p[1]) /\ (IsVertex(p[1], Q) \/ IsEdgeMidpoint(p[1], Q))) => ret.v = TRUE
        /\ OnVerticalEdge(p[1], Q) => ret.v = TRUE

\* the midpoint of a sloped edge of a convex ring
C7_Witness ==
    /\ op = "Contains" /\ Len(p) = 1 /\ IsSimpleRing(p[1]) /\ IsConvex(p[1])
    /\ IsEdgeMidpoint(p[1], Q)
    /\ ~IsVertex(p[1], Q)
    /\ \E i \in 1..(Len(p[1]) - 1) :
           /\ OnSegment(Q, p[1][i], p[1][i + 1])
           /\ p[1][i][1] # p[1][i + 1][1]
           /\ p[1][i][2] # p[1][i + 1][2]
    /\ ret.v = TRUE

IsWellFormed(poly) ==
    /\ Len(poly) >= 1
    /\ \A i \in 1..Len(poly) : IsSimpleRing(poly[i])
    /\ \A i \in 2..Len(poly) :
           /\ \A k \in 1..Len(poly[i]) : InRing(poly[1], poly[i][k])
           /\ \A k \in 1..(Len(poly[i]) - 1), j \in 1..(Len(poly[1]) - 1) :
                  ~(/\ Cross(poly[1][j], poly[1][j + 1], poly[i][k])
                       * Cross(poly[1][j], poly[1][j + 1], poly[i][k + 1]) < 0
                    /\ Cross(poly[i][k], poly[i][k + 1], poly[1][j])
                       * Cross(poly[i][k], poly[i][k + 1], poly[1][j + 1]) < 0)
    /\ \A i, j \in 2..Len(poly) : i < j => RingsDisjoint(poly[i], poly[j])

\* twice the signed shoelace area of a closed ring: > 0 iff counterclockwise
RECURSIVE Shoelace(_, _)
Shoelace(ring, i) ==
    IF i >= Len(ring) THEN 0
    ELSE ring[i][1] * ring[i + 1][2] - ring[i + 1][1] * ring[i][2] + Shoelace(ring, i + 1)

\* C2: DistanceFrom is 0 iff Contains is true, for every polygon and point
C2_DistanceZeroIffContains ==
    (op = "DistanceFrom" /\ Len(p) >= 1 /\ AllSimpleRings) =>
        /\ ~ret.panic
        /\ RIsZero(ret.v) <=> PolygonContains(p, arg).c

\* C3: no operation faults on the polygon with zero rings: WKT is "EMPTY",
\* Area is 0, Contains is false, the others return a value
C3_EmptyPolygonTolerated ==
    (Len(p) = 0 /\ op # "none") =>
        /\ ~ret.panic
        /\ op = "WKT" => ret.v = "EMPTY"
        /\ op = "Area" => ret.v = Num(0)
        /\ op = "Contains" => ret.v = FALSE

\* the weighted sums of the claim's formula over the holes from index i on:
\* <<sum of holeArea, sum of holeArea * holeCentroid per axis>>
RECURSIVE HoleSums(_, _)
HoleSums(poly, i) ==
    IF i > Len(poly) THEN <<Num(0), Num(0), Num(0)>>
    ELSE LET h == RingCentroid(poly[i]).v
             rest == HoleSums(poly, i + 1)
         IN <<RAdd(h.area, rest[1]),
              RAdd(RMul(h.area, h.centroid[1]), rest[2]),
              RAdd(RMul(h.area, h.centroid[2]), rest[3])>>

\* (outerArea * outerCentroid - sum of holeArea_i * holeCentroid_i)
\*     / (outerArea - sum of holeArea_i), per axis
WeightedCentroid(poly) ==
    LET o == RingCentroid(poly[1]).v
        hs == HoleSums(poly, 2)
        net == RSub(o.area, hs[1])
    IN <<RDiv(RSub(RMul(o.area, o.centroid[1]), hs[2]), net),
         RDiv(RSub(RMul(o.area, o.centroid[2]), hs[3]), net)>>

\* C4: with holes, the centroid of CentroidArea is the area-weighted
\* subtraction of the holes' centroids from the outer ring's
C4_CentroidWeightedOnce ==
    (op = "CentroidArea" /\ Len(p) >= 2 /\ IsWellFormed(p)) =>
        /\ ~ret.panic
        /\ ret.v.centroid = WeightedCentroid(p)

\* C5 as stated: Area is >= 0 for every polygon, whatever its rings
C5_AreaNonNegativeAlways ==
    (op = "Area" /\ ~ret.panic) => RGeqZero(ret.v)

\* C5 amended: Area is >= 0 for every polygon of closed simple rings whose
\* holes lie within the outer ring and do not overlap one another, whatever
\* the winding of its rings
C5_AreaNonNegativeWellFormed ==
    (op = "Area" /\ IsWellFormed(p)) => (~ret.panic /\ RGeqZero(ret.v))

\* the area of a clockwise outer ring with a counterclockwise hole
C5_Witness ==
    /\ op = "Area" /\ Len(p) >= 2 /\ IsWellFormed(p)
    /\ Shoelace(p[1], 1) < 0
    /\ Shoelace(p[2], 1) > 0
    /\ ~ret.panic
    /\ ret.v[1] > 0

\* empty, or closed with all its points on one line
IsDegenerateRing(ring) ==
    Len(ring) = 0 \/ (ring[1] = ring[Len(ring)] /\ IsCollinear(ring))

\* C8: the area of an empty or degenerate ring is 0 and computing it never
\* faults, whatever the number of points
C8_DegenerateRingAreaZero ==
    (op = "Area" /\ Len(p) = 1 /\ IsDegenerateRing(p[1])) =>
        (~ret.panic /\ ret.v = Num(0))

\* C10: the area CentroidArea returns is the area Area returns, whatever the
\* winding of the rings
C10_CentroidAreaIsArea ==
    (op = "CentroidArea" /\ IsWellFormed(p)) =>
        /\ ~ret.panic
        /\ ret.v.area = PolygonArea(p).v

====
